---- MODULE Spec2Model ----
(***************************************************************************)
(* Model of the esp-idf-hal timer driver (src/src/timer.rs) and of the     *)
(* serial audio interface driver (src/src/sai.rs).                         *)
(*                                                                         *)
(* The native ESP-IDF primitives the drivers call are modelled by their    *)
(* effect on a small hardware state and by a nondeterministic return code. *)
(* Every driver operation is one action; the native calls it issues are    *)
(* recorded, in order, in a call log that is reset by every operation.     *)
(***************************************************************************)
EXTENDS Integers, Sequences, FiniteSets

(***************************************************************************)
(* Bounds of the model.                                                    *)
(***************************************************************************)
\* distinct handler closures an application subscribes
MaxHandlers == 2
\* heap addresses the allocator hands out for boxed handlers
MaxAddr == 2
\* live handles per identity the model can represent
MaxLive == 2
\* length of the sample slices an application writes and reads
MaxSamples == 2
\* largest counter or alarm value (u64) an application writes
MaxValue == 1
\* the count up to which the counter of a running engine is followed
MaxCount == 2
\* the handlers the alarm scenario chooses from when it subscribes
MaxAlarmHandlers == 1

(***************************************************************************)
(* esp_err_t codes and the esp! conversion.                                *)
(***************************************************************************)
ESP_OK == 0
ESP_FAIL == -1
ESP_ERR_INVALID_ARG == 258
ESP_ERR_INVALID_STATE == 259
ESP_ERR_TIMEOUT == 263

\* what a native call may answer when its preconditions are met
EspCodes == {ESP_OK, ESP_FAIL}

\* the answers of the native calls of one operation: the fail-th call of the
\* operation, if it is reached, answers ESP_FAIL, the calls before it ESP_OK
Answer(fail, k) == IF fail = k THEN ESP_FAIL ELSE ESP_OK

\* Result<(), EspError>
Ok == [ok |-> TRUE, err |-> ESP_OK]
Err(code) == [ok |-> FALSE, err |-> code]
\* the value recorded for an operation that panicked instead of returning
Panic == [ok |-> FALSE, err |-> -2]

\* esp!(code): ESP_OK is Ok(()), every other code is Err(EspError(code))
esp(code) == IF code = ESP_OK THEN Ok ELSE Err(code)

(***************************************************************************)
(* Timer identities (impl_timer!) and the callback registry.               *)
(***************************************************************************)
TimerIds == {"TIMER00", "TIMER01", "TIMER10", "TIMER11"}

\* I2S identities (impl_I2S!)
I2sIds == {"I2S0", "I2S1"}

timer_group_t_TIMER_GROUP_MAX == 2

group(t) ==
    CASE t = "TIMER00" -> 0
      [] t = "TIMER01" -> 0
      [] t = "TIMER10" -> 1
      [] t = "TIMER11" -> 1

index(t) ==
    CASE t = "TIMER00" -> 0
      [] t = "TIMER01" -> 1
      [] t = "TIMER10" -> 0
      [] t = "TIMER11" -> 0

\* the hardware engine an identity drives
Hw(t) == <<group(t), index(t)>>

\* the engines of the target, timers and I2S ports, numbered
TimerEngine(t) == group(t) * 2 + index(t)

HwAddrs == (0 .. 1) \X (0 .. 1)

\* index into ISR_HANDLERS used by subscribe and unsubscribe
SlotIndex(t) == group(t) * timer_group_t_TIMER_GROUP_MAX + index(t)

\* capacity of ISR_HANDLERS (not esp32c3)
NumSlots == 4

Slots == 0 .. (NumSlots - 1)

\* the chips the crate is built for: esp32c3, and the others (not esp32c3)
Targets == {"esp32", "esp32c3"}

\* the identities impl_timer! declares on a target
Declared(tg) == IF tg = "esp32c3" THEN {"TIMER00", "TIMER10"} ELSE TimerIds

\* capacity of ISR_HANDLERS on a target
Capacity(tg) == IF tg = "esp32c3" THEN 2 ELSE NumSlots

Handlers == 1 .. MaxHandlers

\* the u64 counter and alarm values
Values == 0 .. MaxValue
Addrs == 1 .. MaxAddr
NULL == 0

\* Option<Box<Box<dyn FnMut()>>>: None, or the boxed handler h at address addr
None == [addr |-> NULL, h |-> 0]
Some(a, h) == [addr |-> a, h |-> h]

VARIABLES
    target,         \* the chip the crate is built for
    inUse,          \* the peripheral identities the application was handed
    timerAvail,     \* timer identities the application can hand to a constructor
    timerDrivers,   \* number of live TimerDriver handles per identity
    hwInit,         \* engine initialised (timer_init .. timer_deinit)
    hwIntrEn,       \* engine interrupt enabled
    hwCallback,     \* context pointer of the native callback registration, or NULL
    hwRun,          \* engine counting (timer_start .. timer_pause)
    hwAlarmEn,      \* engine alarm enabled
    hwCounter,      \* engine counter value
    hwAlarm,        \* engine alarm value
    ISR_HANDLERS,   \* the callback registry
    isrActive,      \* crate::interrupt::active()
    invoked,        \* the handler calls of the trampoline in the interrupt being
                    \* served: context pointer and handler called
    panicked,       \* the faulting context was terminated
    lastOp,         \* the last operation if on a timer and not followed by a
                    \* change of execution context: name, identity, argument or
                    \* value returned, result
    pre,            \* that timer's slot, interrupt enable, registration, run and
                    \* alarm state and the execution context before it, and the
                    \* handler a successful subscribe on it stored just before
    chain,          \* successful subscribes in a row on lastOp's timer, up to it
    calls,          \* native calls and registry writes of the last operation
    i2sType,        \* mode tag M and size of the sample type W the application
                    \* instantiates I2sDriver<I2S, M, W> with
    i2sAvail,       \* I2S identities the application can hand to a constructor
    i2sDrivers,     \* the live I2sDriver handles
    engine,         \* per I2S port: installed, parameter block, pin block
    i2sOp,          \* the last operation if on I2S, its inputs and its result
    i2sCalls,       \* native calls of the last I2S operation
    reads,          \* the last two values counter() returned to the holder of
                    \* a handle, and whether the handle was paused in between
    alarmLog        \* what the holder of a handle asked of the alarm (handler,
                    \* alarm value, armed, interrupt, run), and the handler
                    \* calls the alarm caused since

\* what only the timer driver writes
\* the counter and alarm registers of the engines
hwRegs == <<hwRun, hwAlarmEn, hwCounter, hwAlarm>>

timerVars == <<timerAvail, timerDrivers, hwInit, hwIntrEn, hwCallback, hwRegs,
               ISR_HANDLERS, isrActive, invoked>>

\* what only the I2S driver writes
i2sVars == <<i2sAvail, i2sDrivers, engine>>

\* the record of the last operation, of either driver
opVars == <<lastOp, pre, chain, calls, i2sOp, i2sCalls>>

\* what is followed of the counter and alarm scenarios
scenarioVars == <<reads, alarmLog>>

vars == <<target, inUse, i2sType, panicked, timerVars, i2sVars, opVars,
          scenarioVars>>

(***************************************************************************)
(* The state the timer driver's code reads and writes, as one value.       *)
(***************************************************************************)
Machine ==
    [hwInit |-> hwInit, hwIntrEn |-> hwIntrEn, hwCallback |-> hwCallback,
     hwRun |-> hwRun, hwAlarmEn |-> hwAlarmEn, hwCounter |-> hwCounter,
     hwAlarm |-> hwAlarm, ISR_HANDLERS |-> ISR_HANDLERS, calls |-> <<>>]

\* a native call on engine a, or (a = <<>>) a write of registry slot i
LogEntry(fn, a, i, arg, ret) ==
    [fn |-> fn, hw |-> a, slot |-> i, arg |-> arg, ret |-> ret]

Logged(m, fn, a, arg, ret) ==
    [m EXCEPT !.calls = Append(@, LogEntry(fn, a, -1, arg, ret))]

\* a native timer call on an engine that was never initialised fails
NativeRet(m, a, r) == IF m.hwInit[a] THEN r ELSE ESP_ERR_INVALID_ARG

\* the configuration block of TimerDriver::new: alarm disabled, counter paused
timer_init(m, a, r) ==
    LET m1 == IF r = ESP_OK
              THEN [m EXCEPT !.hwInit[a] = TRUE, !.hwIntrEn[a] = FALSE,
                             !.hwAlarmEn[a] = FALSE, !.hwRun[a] = FALSE]
              ELSE m
    IN  [m |-> Logged(m1, "timer_init", a, 0, r), ret |-> r]

timer_deinit(m, a, r) ==
    LET ret == NativeRet(m, a, r)
        m1 == IF ret = ESP_OK
              THEN [m EXCEPT !.hwInit[a] = FALSE, !.hwIntrEn[a] = FALSE,
                             !.hwCallback[a] = NULL, !.hwRun[a] = FALSE]
              ELSE m
    IN  [m |-> Logged(m1, "timer_deinit", a, 0, ret), ret |-> ret]

timer_enable_intr(m, a, r) ==
    LET ret == NativeRet(m, a, r)
        m1 == IF ret = ESP_OK THEN [m EXCEPT !.hwIntrEn[a] = TRUE] ELSE m
    IN  [m |-> Logged(m1, "timer_enable_intr", a, 0, ret), ret |-> ret]

timer_disable_intr(m, a, r) ==
    LET ret == NativeRet(m, a, r)
        m1 == IF ret = ESP_OK THEN [m EXCEPT !.hwIntrEn[a] = FALSE] ELSE m
    IN  [m |-> Logged(m1, "timer_disable_intr", a, 0, ret), ret |-> ret]

timer_isr_callback_add(m, a, ctx, r) ==
    LET ret == NativeRet(m, a, r)
        m1 == IF ret = ESP_OK THEN [m EXCEPT !.hwCallback[a] = ctx] ELSE m
    IN  [m |-> Logged(m1, "timer_isr_callback_add", a, ctx, ret), ret |-> ret]

timer_isr_callback_remove(m, a, r) ==
    LET ret == NativeRet(m, a, r)
        m1 == IF ret = ESP_OK THEN [m EXCEPT !.hwCallback[a] = NULL] ELSE m
    IN  [m |-> Logged(m1, "timer_isr_callback_remove", a, 0, ret), ret |-> ret]

timer_start(m, a, r) ==
    LET ret == NativeRet(m, a, r)
        m1 == IF ret = ESP_OK THEN [m EXCEPT !.hwRun[a] = TRUE] ELSE m
    IN  [m |-> Logged(m1, "timer_start", a, 0, ret), ret |-> ret]

timer_pause(m, a, r) ==
    LET ret == NativeRet(m, a, r)
        m1 == IF ret = ESP_OK THEN [m EXCEPT !.hwRun[a] = FALSE] ELSE m
    IN  [m |-> Logged(m1, "timer_pause", a, 0, ret), ret |-> ret]

\* the blocking read: the value is written through the out pointer on success
timer_get_counter_value(m, a, r) ==
    LET ret == NativeRet(m, a, r)
        val == IF ret = ESP_OK THEN m.hwCounter[a] ELSE 0
    IN  [m |-> Logged(m, "timer_get_counter_value", a, val, ret), ret |-> ret,
         val |-> val]

\* the interrupt-safe read: returns the value, has no error code
timer_group_get_counter_value_in_isr(m, a) ==
    [m |-> Logged(m, "timer_group_get_counter_value_in_isr", a, m.hwCounter[a],
                  ESP_OK),
     val |-> m.hwCounter[a]]

timer_set_counter_value(m, a, value, r) ==
    LET ret == NativeRet(m, a, r)
        m1 == IF ret = ESP_OK THEN [m EXCEPT !.hwCounter[a] = value] ELSE m
    IN  [m |-> Logged(m1, "timer_set_counter_value", a, value, ret), ret |-> ret]

\* timer_alarm_t
timer_alarm_t_TIMER_ALARM_DIS == 0
timer_alarm_t_TIMER_ALARM_EN == 1

timer_set_alarm(m, a, alarm_en, r) ==
    LET ret == NativeRet(m, a, r)
        m1 == IF ret = ESP_OK
              THEN [m EXCEPT !.hwAlarmEn[a] = (alarm_en = timer_alarm_t_TIMER_ALARM_EN)]
              ELSE m
    IN  [m |-> Logged(m1, "timer_set_alarm", a, alarm_en, ret), ret |-> ret]

timer_group_enable_alarm_in_isr(m, a) ==
    [m |-> Logged([m EXCEPT !.hwAlarmEn[a] = TRUE],
                  "timer_group_enable_alarm_in_isr", a, 0, ESP_OK)]

timer_get_alarm_value(m, a, r) ==
    LET ret == NativeRet(m, a, r)
        val == IF ret = ESP_OK THEN m.hwAlarm[a] ELSE 0
    IN  [m |-> Logged(m, "timer_get_alarm_value", a, val, ret), ret |-> ret,
         val |-> val]

timer_set_alarm_value(m, a, value, r) ==
    LET ret == NativeRet(m, a, r)
        m1 == IF ret = ESP_OK THEN [m EXCEPT !.hwAlarm[a] = value] ELSE m
    IN  [m |-> Logged(m1, "timer_set_alarm_value", a, value, ret), ret |-> ret]

timer_group_set_alarm_value_in_isr(m, a, value) ==
    [m |-> Logged([m EXCEPT !.hwAlarm[a] = value],
                  "timer_group_set_alarm_value_in_isr", a, value, ESP_OK)]

\* addresses of the boxes the registry owns
LiveAddrs(m) == {m.ISR_HANDLERS[i].addr : i \in DOMAIN m.ISR_HANDLERS} \ {NULL}

\* ISR_HANDLERS[i] = v: the previous content of the slot is dropped
SlotAssign(m, i, v) ==
    [m EXCEPT !.ISR_HANDLERS[i] = v,
              !.calls = Append(@,
                  LogEntry(IF v = None THEN "slot_clear" ELSE "slot_store", <<>>, i,
                           IF v = None THEN m.ISR_HANDLERS[i].addr ELSE v.addr,
                           ESP_OK))]

\* ISR_HANDLERS[i]: indexing the array outside its length panics
InBounds(m, i) == i \in DOMAIN m.ISR_HANDLERS

(***************************************************************************)
(* TimerDriver operations after check(), as functions of the machine.      *)
(* r1, r2, ... are the answers of the native calls in call order.          *)
(***************************************************************************)
enable_interrupt(m, t, r) ==
    LET c == timer_enable_intr(m, Hw(t), r)
    IN  [m |-> c.m, res |-> esp(c.ret)]

disable_interrupt(m, t, r) ==
    LET c == timer_disable_intr(m, Hw(t), r)
    IN  [m |-> c.m, res |-> esp(c.ret)]

\* unsubscribe without the test of the slot: the native calls are issued
\* whether or not a handler is registered
unsubscribe_unconditional(m, t, r1, r2) ==
    LET i == SlotIndex(t)
        c1 == timer_disable_intr(m, Hw(t), r1)
        c2 == timer_isr_callback_remove(c1.m, Hw(t), r2)
    IN  IF ~esp(c1.ret).ok THEN [m |-> c1.m, res |-> esp(c1.ret)]
        ELSE IF ~esp(c2.ret).ok THEN [m |-> c2.m, res |-> esp(c2.ret)]
        ELSE [m |-> SlotAssign(c2.m, i, None), res |-> Ok]

\* unsubscribe freeing the slot before it silences the engine
unsubscribe_clearing_first(m, t, r1, r2) ==
    LET i == SlotIndex(t)
        subscribed == m.ISR_HANDLERS[i] # None
        m0 == SlotAssign(m, i, None)
        c1 == timer_disable_intr(m0, Hw(t), r1)
        c2 == timer_isr_callback_remove(c1.m, Hw(t), r2)
    IN  IF ~subscribed THEN [m |-> m, res |-> Ok]
        ELSE IF ~esp(c1.ret).ok THEN [m |-> c1.m, res |-> esp(c1.ret)]
        ELSE [m |-> c2.m, res |-> esp(c2.ret)]

\* unsubscribe freeing the slot whatever the removal of the registration
\* answers
unsubscribe_ignoring_remove_error(m, t, r1, r2) ==
    LET i == SlotIndex(t)
        subscribed == m.ISR_HANDLERS[i] # None
        c1 == timer_disable_intr(m, Hw(t), r1)
        c2 == timer_isr_callback_remove(c1.m, Hw(t), r2)
    IN  IF ~subscribed THEN [m |-> m, res |-> Ok]
        ELSE IF ~esp(c1.ret).ok THEN [m |-> c1.m, res |-> esp(c1.ret)]
        ELSE [m |-> SlotAssign(c2.m, i, None), res |-> esp(c2.ret)]

unsubscribe(m, t, r1, r2) ==
    LET i == SlotIndex(t)
        subscribed == m.ISR_HANDLERS[i] # None
        c1 == timer_disable_intr(m, Hw(t), r1)
        c2 == timer_isr_callback_remove(c1.m, Hw(t), r2)
    IN  IF ~InBounds(m, i) THEN [m |-> m, res |-> Panic]
        ELSE IF ~subscribed THEN [m |-> m, res |-> Ok]
        ELSE IF ~esp(c1.ret).ok THEN [m |-> c1.m, res |-> esp(c1.ret)]
        ELSE IF ~esp(c2.ret).ok THEN [m |-> c2.m, res |-> esp(c2.ret)]
        ELSE [m |-> SlotAssign(c2.m, i, None), res |-> Ok]

\* subscribe without the leading unsubscribe: the new handler is stored and
\* registered over whatever is there
subscribe_without_unsubscribe(m, t, h, a, r1, r2, r3, r4) ==
    LET i == SlotIndex(t)
        m1 == SlotAssign(m, i, Some(a, h))
        c3 == timer_isr_callback_add(m1, Hw(t), m1.ISR_HANDLERS[i].addr, r3)
    IN  IF ~esp(c3.ret).ok THEN [m |-> c3.m, res |-> esp(c3.ret)]
        ELSE enable_interrupt(c3.m, t, r4)

\* subscribe enabling the interrupt before the trampoline is registered
subscribe_enabling_first(m, t, h, a, r1, r2, r3, r4) ==
    LET i == SlotIndex(t)
        u == unsubscribe(m, t, r1, r2)
        m1 == SlotAssign(u.m, i, Some(a, h))
        e == enable_interrupt(m1, t, r3)
        c4 == timer_isr_callback_add(e.m, Hw(t), e.m.ISR_HANDLERS[i].addr, r4)
    IN  IF ~u.res.ok THEN u
        ELSE IF ~e.res.ok THEN e
        ELSE [m |-> c4.m, res |-> esp(c4.ret)]

subscribe(m, t, h, a, r1, r2, r3, r4) ==
    LET i == SlotIndex(t)
        u == unsubscribe(m, t, r1, r2)
        m1 == SlotAssign(u.m, i, Some(a, h))
        c3 == timer_isr_callback_add(m1, Hw(t), m1.ISR_HANDLERS[i].addr, r3)
    IN  IF ~u.res.ok THEN u
        ELSE IF ~esp(c3.ret).ok THEN [m |-> c3.m, res |-> esp(c3.ret)]
        ELSE enable_interrupt(c3.m, t, r4)

\* enable starting the counter whatever it is asked
enable_start_only(m, t, en, r) ==
    LET c == timer_start(m, Hw(t), r)
    IN  [m |-> c.m, res |-> esp(c.ret)]

\* enable after check()
enable(m, t, en, r) ==
    LET c == IF en THEN timer_start(m, Hw(t), r) ELSE timer_pause(m, Hw(t), r)
    IN  [m |-> c.m, res |-> esp(c.ret)]

\* counter reading through the blocking primitive whatever the context
counter_always_blocking(m, t, active, r) ==
    LET n == timer_get_counter_value(m, Hw(t), r)
    IN  IF ~esp(n.ret).ok THEN [m |-> n.m, res |-> esp(n.ret), val |-> 0]
        ELSE [m |-> n.m, res |-> Ok, val |-> n.val]

\* counter; active is crate::interrupt::active()
counter(m, t, active, r) ==
    LET i == timer_group_get_counter_value_in_isr(m, Hw(t))
        n == timer_get_counter_value(m, Hw(t), r)
    IN  IF active THEN [m |-> i.m, res |-> Ok, val |-> i.val]
        ELSE IF ~esp(n.ret).ok THEN [m |-> n.m, res |-> esp(n.ret), val |-> 0]
        ELSE [m |-> n.m, res |-> Ok, val |-> n.val]

\* set_counter after check()
set_counter(m, t, value, r) ==
    LET c == timer_set_counter_value(m, Hw(t), value, r)
    IN  [m |-> c.m, res |-> esp(c.ret)]

\* enable_alarm accepting a disable request from an interrupt handler
enable_alarm_disabling_in_isr(m, t, active, en, r) ==
    LET i == timer_group_enable_alarm_in_isr(m, Hw(t))
        n == timer_set_alarm(m, Hw(t),
                             IF en THEN timer_alarm_t_TIMER_ALARM_EN
                             ELSE timer_alarm_t_TIMER_ALARM_DIS, r)
    IN  IF active /\ en THEN [m |-> i.m, res |-> Ok]
        ELSE IF active
        THEN [m |-> Logged([m EXCEPT !.hwAlarmEn[Hw(t)] = FALSE],
                           "timer_group_disable_alarm_in_isr", Hw(t), 0, ESP_OK),
              res |-> Ok]
        ELSE [m |-> n.m, res |-> esp(n.ret)]

\* enable_alarm writing the disabled setting in normal context whatever it is
\* asked
enable_alarm_writing_disable(m, t, active, en, r) ==
    LET i == timer_group_enable_alarm_in_isr(m, Hw(t))
        n == timer_set_alarm(m, Hw(t), timer_alarm_t_TIMER_ALARM_DIS, r)
    IN  IF active /\ en THEN [m |-> i.m, res |-> Ok]
        ELSE IF active THEN [m |-> m, res |-> Panic]
        ELSE [m |-> n.m, res |-> esp(n.ret)]

enable_alarm(m, t, active, en, r) ==
    LET i == timer_group_enable_alarm_in_isr(m, Hw(t))
        n == timer_set_alarm(m, Hw(t),
                             IF en THEN timer_alarm_t_TIMER_ALARM_EN
                             ELSE timer_alarm_t_TIMER_ALARM_DIS, r)
    IN  IF active /\ en THEN [m |-> i.m, res |-> Ok]
        ELSE IF active THEN [m |-> m, res |-> Panic]
        ELSE [m |-> n.m, res |-> esp(n.ret)]

\* alarm after check()
alarm(m, t, r) ==
    LET c == timer_get_alarm_value(m, Hw(t), r)
    IN  IF ~esp(c.ret).ok THEN [m |-> c.m, res |-> esp(c.ret), val |-> 0]
        ELSE [m |-> c.m, res |-> Ok, val |-> c.val]

\* set_alarm refusing to run in an interrupt handler
set_alarm_normal_only(m, t, active, value, r) ==
    LET n == timer_set_alarm_value(m, Hw(t), value, r)
    IN  IF active THEN [m |-> m, res |-> Panic]
        ELSE [m |-> n.m, res |-> esp(n.ret)]

set_alarm(m, t, active, value, r) ==
    LET i == timer_group_set_alarm_value_in_isr(m, Hw(t), value)
        n == timer_set_alarm_value(m, Hw(t), value, r)
    IN  IF active THEN [m |-> i.m, res |-> Ok]
        ELSE [m |-> n.m, res |-> esp(n.ret)]

\* the handlers of the boxes at address ctx that the registry owns
BoxAt(m, ctx) ==
    {m.ISR_HANDLERS[i].h :
        i \in {j \in DOMAIN m.ISR_HANDLERS : m.ISR_HANDLERS[j].addr = ctx}}

\* what UnsafeCallback::from_ptr(ctx).call() may run: the handler in the box at
\* ctx; through a pointer to a freed box, any handler or (0) no valid code
Callees(m, ctx) == IF BoxAt(m, ctx) # {} THEN BoxAt(m, ctx) ELSE Handlers \cup {0}

\* a trampoline that takes the handler out of the registry to call it
handle_isr_consuming(m, ctx, h) ==
    [m |-> [m EXCEPT !.ISR_HANDLERS =
                [i \in DOMAIN @ |-> IF @[i].addr = ctx THEN None ELSE @[i]]],
     invoked |-> << [ctx |-> ctx, h |-> h] >>]

\* handle_isr(unsafe_callback), calling handler h at the context pointer
handle_isr(m, ctx, h) ==
    [m |-> m, invoked |-> << [ctx |-> ctx, h |-> h] >>]

(***************************************************************************)
(* Actions.                                                                *)
(***************************************************************************)
OpRec(op, t, arg, res) == [op |-> op, t |-> t, arg |-> arg, res |-> res]

NoOp == OpRec("none", "none", 0, Ok)

\* lastOp was a successful subscribe on identity t
JustSubscribed(t) ==
    lastOp.op = "subscribe" /\ lastOp.t = t /\ lastOp.res.ok

\* the slot, interrupt enable, registration, run and alarm enable of identity
\* t and the execution context, with the handler lastOp stored if lastOp was a
\* successful subscribe on t
Snapshot(t) ==
    [slot |-> IF SlotIndex(t) \in DOMAIN ISR_HANDLERS
              THEN ISR_HANDLERS[SlotIndex(t)] ELSE None,
     intr |-> hwIntrEn[Hw(t)],
     cb |-> hwCallback[Hw(t)],
     arg |-> IF JustSubscribed(t) THEN lastOp.arg ELSE 0, isr |-> isrActive,
     run |-> hwRun[Hw(t)], alarm_en |-> hwAlarmEn[Hw(t)]]

NoSnapshot ==
    [slot |-> None, intr |-> FALSE, cb |-> NULL, arg |-> 0, isr |-> FALSE,
     run |-> FALSE, alarm_en |-> FALSE]

\* length, capped at 2, of the run of successful subscribes on t that the
\* operation extends (subscribe), follows (unsubscribe) or ends (any other)
Chain(op, t, res) ==
    CASE op = "subscribe" /\ res.ok ->
            IF JustSubscribed(t) THEN (IF chain >= 1 THEN 2 ELSE 1) ELSE 1
      [] op = "unsubscribe" ->
            IF JustSubscribed(t) THEN chain ELSE 0
      [] OTHER -> 0

Record(op, t, arg, res) ==
    /\ lastOp' = OpRec(op, t, arg, res)
    /\ pre' = Snapshot(t)
    /\ chain' = Chain(op, t, res)
    /\ i2sOp' = [op |-> "none", i2s |-> "none", m |-> "none", w |-> 0,
                 data_in |-> FALSE, data_out |-> FALSE, mck |-> FALSE, len |-> 0,
                 res |-> Ok]
    /\ i2sCalls' = <<>>

Commit(m) ==
    /\ hwInit' = m.hwInit
    /\ hwIntrEn' = m.hwIntrEn
    /\ hwCallback' = m.hwCallback
    /\ hwRun' = m.hwRun
    /\ hwAlarmEn' = m.hwAlarmEn
    /\ hwCounter' = m.hwCounter
    /\ hwAlarm' = m.hwAlarm
    /\ ISR_HANDLERS' = m.ISR_HANDLERS
    /\ calls' = m.calls

\* check(): a normal-context-only operation called from an ISR panics
CheckPanics(op, t, arg) ==
    /\ isrActive
    /\ panicked' = TRUE
    /\ Record(op, t, arg, Panic)
    /\ calls' = <<>>
    /\ UNCHANGED <<timerAvail, timerDrivers, hwInit, hwIntrEn, hwCallback, hwRegs,
                   ISR_HANDLERS, isrActive, invoked>>

\* an operation that passed check() and returned res, or panicked at a
\* registry access, leaving machine m
Returns(op, t, arg, out) ==
    /\ ~isrActive
    /\ Commit(out.m)
    /\ Record(op, t, arg, out.res)
    /\ panicked' = (out.res = Panic)
    /\ UNCHANGED <<timerAvail, timerDrivers, isrActive, invoked>>

\* an operation that runs in either context and ended with out.res, a panic
\* included, leaving machine out.m
Completes(op, t, arg, out) ==
    /\ Commit(out.m)
    /\ Record(op, t, arg, out.res)
    /\ panicked' = (out.res = Panic)
    /\ UNCHANGED <<timerAvail, timerDrivers, isrActive, invoked>>

\* crate::into_ref!(timer), i2s.into_ref(): the handle under construction
\* takes the identity for its lifetime
IntoRef(avail, p) == avail \ {p}

\* a constructor that initialises the engine but does not keep the identity
TimerNew_without_ref(t) ==
    /\ ~panicked
    /\ t \in timerAvail
    /\ timerDrivers[t] < MaxLive
    /\ \E r \in EspCodes :
        LET c == timer_init(Machine, Hw(t), r)
        IN  /\ Commit(c.m)
            /\ Record("new", t, 0, esp(c.ret))
            /\ IF esp(c.ret).ok
               THEN /\ timerAvail' = timerAvail
                    /\ timerDrivers' = [timerDrivers EXCEPT ![t] = @ + 1]
               ELSE UNCHANGED <<timerAvail, timerDrivers>>
    /\ UNCHANGED <<isrActive, invoked, panicked>>

TimerNew(t) ==
    /\ ~panicked
    /\ t \in timerAvail
    /\ timerDrivers[t] < MaxLive
    /\ \E r \in EspCodes :
        LET c == timer_init(Machine, Hw(t), r)
        IN  /\ Commit(c.m)
            /\ Record("new", t, 0, esp(c.ret))
            /\ IF esp(c.ret).ok
               THEN /\ timerAvail' = IntoRef(timerAvail, t)
                    /\ timerDrivers' = [timerDrivers EXCEPT ![t] = @ + 1]
               ELSE UNCHANGED <<timerAvail, timerDrivers>>
    /\ UNCHANGED <<isrActive, invoked, panicked>>

TimerSubscribe(t) ==
    /\ ~panicked
    /\ timerDrivers[t] > 0
    /\ \E h \in Handlers :
        \/ CheckPanics("subscribe", t, h)
        \/ \E fail \in 0 .. 4, a \in Addrs :
            LET r1 == Answer(fail, 1)
                r2 == Answer(fail, 2)
                r3 == Answer(fail, 3)
                r4 == Answer(fail, 4)
            IN  /\ a \notin LiveAddrs(unsubscribe(Machine, t, r1, r2).m)
                /\ Returns("subscribe", t, h,
                           subscribe(Machine, t, h, a, r1, r2, r3, r4))

TimerUnsubscribe(t) ==
    /\ ~panicked
    /\ timerDrivers[t] > 0
    /\ \/ CheckPanics("unsubscribe", t, 0)
       \/ \E fail \in 0 .. 2 :
            Returns("unsubscribe", t, 0,
                    unsubscribe(Machine, t, Answer(fail, 1), Answer(fail, 2)))

TimerEnableInterrupt(t) ==
    /\ ~panicked
    /\ timerDrivers[t] > 0
    /\ \/ CheckPanics("enable_interrupt", t, 0)
       \/ \E r \in EspCodes :
            Returns("enable_interrupt", t, 0, enable_interrupt(Machine, t, r))

TimerDisableInterrupt(t) ==
    /\ ~panicked
    /\ timerDrivers[t] > 0
    /\ \/ CheckPanics("disable_interrupt", t, 0)
       \/ \E r \in EspCodes :
            Returns("disable_interrupt", t, 0, disable_interrupt(Machine, t, r))

\* a destructor that deinitialises the engine and leaves the registry alone
TimerDrop_without_unsubscribe(t) ==
    /\ ~panicked
    /\ timerDrivers[t] > 0
    /\ ~isrActive
    /\ \E r \in EspCodes :
        LET d == timer_deinit(Machine, Hw(t), r)
        IN  /\ Commit(d.m)
            /\ IF ~esp(d.ret).ok
               THEN /\ Record("drop", t, 0, Panic)
                    /\ panicked' = TRUE
                    /\ UNCHANGED <<timerAvail, timerDrivers>>
               ELSE /\ Record("drop", t, 0, Ok)
                    /\ timerAvail' = timerAvail \cup {t}
                    /\ timerDrivers' = [timerDrivers EXCEPT ![t] = @ - 1]
                    /\ UNCHANGED panicked
    /\ UNCHANGED <<isrActive, invoked>>

\* Drop for TimerDriver: unsubscribe().unwrap(), then timer_deinit().unwrap()
TimerDrop(t) ==
    /\ ~panicked
    /\ timerDrivers[t] > 0
    /\ \/ CheckPanics("drop", t, 0)
       \/ /\ ~isrActive
          /\ \E fail \in 0 .. 3 :
              LET u == unsubscribe(Machine, t, Answer(fail, 1), Answer(fail, 2))
                  d == timer_deinit(u.m, Hw(t), Answer(fail, 3))
              IN  IF ~u.res.ok
                  THEN /\ Commit(u.m)
                       /\ Record("drop", t, 0, Panic)
                       /\ panicked' = TRUE
                       /\ UNCHANGED <<timerAvail, timerDrivers>>
                  ELSE IF ~esp(d.ret).ok
                  THEN /\ Commit(d.m)
                       /\ Record("drop", t, 0, Panic)
                       /\ panicked' = TRUE
                       /\ UNCHANGED <<timerAvail, timerDrivers>>
                  ELSE /\ Commit(d.m)
                       /\ Record("drop", t, 0, Ok)
                       /\ timerAvail' = timerAvail \cup {t}
                       /\ timerDrivers' = [timerDrivers EXCEPT ![t] = @ - 1]
                       /\ UNCHANGED panicked
          /\ UNCHANGED <<isrActive, invoked>>

\* enable without check(): the native call is issued in either context
TimerEnable_unchecked(t) ==
    /\ ~panicked
    /\ timerDrivers[t] > 0
    /\ \E en \in BOOLEAN, r \in EspCodes :
        Completes("enable", t, IF en THEN 1 ELSE 0, enable(Machine, t, en, r))

TimerEnable(t) ==
    /\ ~panicked
    /\ timerDrivers[t] > 0
    /\ \E en \in BOOLEAN :
        \/ CheckPanics("enable", t, IF en THEN 1 ELSE 0)
        \/ \E r \in EspCodes :
            Returns("enable", t, IF en THEN 1 ELSE 0, enable(Machine, t, en, r))

\* the recorded argument of counter and of alarm is the value they return
TimerCounter(t) ==
    /\ ~panicked
    /\ timerDrivers[t] > 0
    /\ \E r \in EspCodes :
        LET out == counter(Machine, t, isrActive, r)
        IN  Completes("counter", t, out.val, out)

TimerSetCounter(t) ==
    /\ ~panicked
    /\ timerDrivers[t] > 0
    /\ \E value \in Values :
        \/ CheckPanics("set_counter", t, value)
        \/ \E r \in EspCodes :
            Returns("set_counter", t, value, set_counter(Machine, t, value, r))

TimerEnableAlarm(t) ==
    /\ ~panicked
    /\ timerDrivers[t] > 0
    /\ \E en \in BOOLEAN, r \in EspCodes :
        Completes("enable_alarm", t, IF en THEN 1 ELSE 0,
                  enable_alarm(Machine, t, isrActive, en, r))

TimerAlarm(t) ==
    /\ ~panicked
    /\ timerDrivers[t] > 0
    /\ \/ CheckPanics("alarm", t, 0)
       \/ \E r \in EspCodes :
            LET out == alarm(Machine, t, r)
            IN  Returns("alarm", t, out.val, out)

TimerSetAlarm(t) ==
    /\ ~panicked
    /\ timerDrivers[t] > 0
    /\ \E value \in Values, r \in EspCodes :
        Completes("set_alarm", t, value, set_alarm(Machine, t, isrActive, value, r))

\* a change of execution context ends the record of the last operation
Interrupted ==
    /\ lastOp' = NoOp
    /\ pre' = NoSnapshot
    /\ chain' = 0
    /\ calls' = <<>>
    /\ UNCHANGED <<i2sOp, i2sCalls>>

\* the interrupt of engine a fires: the dispatcher calls the registered
\* trampoline with the registered context pointer, inside the interrupt scope
IsrEnter(a) ==
    /\ ~panicked
    /\ ~isrActive
    /\ hwIntrEn[a]
    /\ hwCallback[a] # NULL
    /\ isrActive' = TRUE
    /\ \E h \in Callees(Machine, hwCallback[a]) :
        LET out == handle_isr(Machine, hwCallback[a], h)
        IN  /\ invoked' = out.invoked
            /\ ISR_HANDLERS' = out.m.ISR_HANDLERS
            /\ hwIntrEn' = out.m.hwIntrEn
            /\ hwCallback' = out.m.hwCallback
            /\ panicked' = (h = 0)
    /\ Interrupted
    /\ UNCHANGED <<timerAvail, timerDrivers, hwInit, hwRegs>>

\* the handler returns and the interrupt ends
IsrExit ==
    /\ ~panicked
    /\ isrActive
    /\ isrActive' = FALSE
    /\ invoked' = <<>>
    /\ Interrupted
    /\ UNCHANGED <<timerAvail, timerDrivers, hwInit, hwIntrEn, hwCallback, hwRegs,
                   ISR_HANDLERS, panicked>>

(***************************************************************************)
(* The counter and the alarm of a running engine, and what the holder of   *)
(* a handle sees of them.                                                  *)
(***************************************************************************)
NoReads == [prev |-> -1, last |-> -1, paused |-> FALSE, still |-> FALSE,
            held |-> FALSE]

\* reads after operation op on the handle: a constructed timer is paused,
\* enable(true) unpauses and enable(false) pauses it, set_counter starts a new
\* sequence of reads, and a read shifts the last value to prev, with held
\* telling whether the handle stayed paused from that read to this one
ReadsAfter(op) ==
    CASE op.op = "new" /\ op.res.ok ->
            [NoReads EXCEPT !.paused = TRUE, !.still = TRUE]
      [] op.op = "drop" -> NoReads
      [] op.op = "set_counter" /\ op.res # Panic ->
            [reads EXCEPT !.prev = -1, !.last = -1]
      [] op.op = "enable" /\ op.res.ok ->
            [reads EXCEPT !.paused = (op.arg = 0), !.still = @ /\ (op.arg = 0)]
      [] op.op = "counter" /\ op.res.ok ->
            [reads EXCEPT !.prev = reads.last, !.last = op.arg,
                          !.held = reads.still, !.still = reads.paused]
      [] OTHER -> reads

NoAlarmLog == [sub |-> 0, alarm |-> -1, armed |-> FALSE, intr |-> FALSE,
               run |-> FALSE, below |-> FALSE, shots |-> <<>>]

\* alarmLog after operation op on the handle of engine a, count being the
\* counter of the engine: what each successful operation asked for; below
\* tells whether the counter was below the alarm value when the alarm was
\* last armed or set; shots starts again at every arming, setting and
\* subscribing
AlarmLogAfter(op, count) ==
    CASE op.op = "new" /\ op.res.ok -> NoAlarmLog
      [] op.op = "drop" -> NoAlarmLog
      [] op.op = "subscribe" /\ op.res.ok ->
            [alarmLog EXCEPT !.sub = op.arg, !.intr = TRUE, !.shots = <<>>]
      [] op.op = "subscribe" /\ op.res # Panic ->
            [alarmLog EXCEPT !.sub = 0, !.intr = FALSE, !.shots = <<>>]
      [] op.op = "enable_interrupt" /\ op.res.ok ->
            [alarmLog EXCEPT !.intr = TRUE]
      [] op.op = "set_alarm" /\ op.res.ok ->
            [alarmLog EXCEPT !.alarm = op.arg, !.below = count < op.arg,
                             !.shots = <<>>]
      [] op.op = "enable_alarm" /\ op.res.ok /\ op.arg = 1 ->
            [alarmLog EXCEPT !.armed = TRUE,
                             !.below = alarmLog.alarm >= 0 /\ count < alarmLog.alarm,
                             !.shots = <<>>]
      [] op.op = "enable_alarm" /\ op.res.ok /\ op.arg = 0 ->
            [alarmLog EXCEPT !.armed = FALSE]
      [] op.op = "enable" /\ op.res.ok ->
            [alarmLog EXCEPT !.run = (op.arg = 1)]
      [] OTHER -> alarmLog

\* The counter of the running engine a counts up by one.  When it reaches the
\* alarm value with the alarm enabled, the alarm is disabled (no auto-reload)
\* and, if the interrupt of the engine is enabled and a trampoline is
\* registered, the dispatcher calls the trampoline with the registered
\* context; otherwise the event is not served.  An alarm due while a handler
\* runs waits for the handler to return.
Tick(a) ==
    /\ ~panicked
    /\ hwInit[a]
    /\ hwRun[a]
    /\ hwCounter[a] < MaxCount
    /\ LET count == hwCounter[a] + 1
           match == hwAlarmEn[a] /\ count = hwAlarm[a]
           served == match /\ hwIntrEn[a] /\ hwCallback[a] # NULL
       IN  /\ isrActive => ~match
           /\ hwCounter' = [hwCounter EXCEPT ![a] = count]
           /\ hwAlarmEn' = [hwAlarmEn EXCEPT ![a] = @ /\ ~match]
           /\ IF served
              THEN \E h \in Callees(Machine, hwCallback[a]) :
                    LET out == handle_isr(Machine, hwCallback[a], h)
                    IN  /\ isrActive' = TRUE
                        /\ invoked' = out.invoked
                        /\ ISR_HANDLERS' = out.m.ISR_HANDLERS
                        /\ hwIntrEn' = out.m.hwIntrEn
                        /\ hwCallback' = out.m.hwCallback
                        /\ panicked' = (h = 0)
                        /\ Interrupted
                        /\ alarmLog' =
                              [alarmLog EXCEPT
                                 !.armed = FALSE,
                                 !.shots =
                                    IF Len(@) < 2
                                    THEN Append(@, [h |-> out.invoked[1].h,
                                                    count |-> count])
                                    ELSE @]
              ELSE /\ alarmLog' = [alarmLog EXCEPT !.armed = @ /\ ~match]
                   /\ UNCHANGED <<isrActive, invoked, ISR_HANDLERS, hwIntrEn,
                                  hwCallback, panicked, opVars>>
    /\ UNCHANGED <<timerAvail, timerDrivers, hwInit, hwRun, hwAlarm, reads>>


(***************************************************************************)
(* Serial audio interface: identities, formats, parameter blocks.          *)
(***************************************************************************)
port(i) ==
    CASE i = "I2S0" -> 0
      [] i = "I2S1" -> 1

Ports == 0 .. 1

\* embedded_hal::sai mode tags
Modes == {"I2sMode", "I2sLeftMode", "TdmMode"}

\* config::Mode
Mode == [Master |-> 1, Slave |-> 2, Tx |-> 4, Rx |-> 8, Pdm |-> 64]

\* config::CommFormat
CommFormat == [I2s |-> 1, Msb |-> 2, PcmShort |-> 4, PcmLong |-> 12]

\* config::ChannelFormat
ChannelFormat == [RightLeft |-> 0, AllRight |-> 1, AllLeft |-> 2,
                  OnlyRight |-> 3, OnlyLeft |-> 4]

\* a format table in which the TDM format differs between the two identities
get_comm_format_by_port(i, m) ==
    CASE i = "I2S0" /\ m = "I2sMode" -> CommFormat.I2s
      [] i = "I2S0" /\ m = "I2sLeftMode" -> CommFormat.Msb
      [] i = "I2S0" /\ m = "TdmMode" -> CommFormat.PcmShort
      [] i = "I2S1" /\ m = "I2sMode" -> CommFormat.I2s
      [] i = "I2S1" /\ m = "I2sLeftMode" -> CommFormat.Msb
      [] i = "I2S1" /\ m = "TdmMode" -> CommFormat.PcmLong

\* the (identity, mode) pairs impl_I2S! declares, and their format
get_comm_format(i, m) ==
    CASE i = "I2S0" /\ m = "I2sMode" -> CommFormat.I2s
      [] i = "I2S0" /\ m = "I2sLeftMode" -> CommFormat.Msb
      [] i = "I2S0" /\ m = "TdmMode" -> CommFormat.PcmShort
      [] i = "I2S1" /\ m = "I2sMode" -> CommFormat.I2s
      [] i = "I2S1" /\ m = "I2sLeftMode" -> CommFormat.Msb
      [] i = "I2S1" /\ m = "TdmMode" -> CommFormat.PcmShort

\* core::mem::size_of::<W>() of the sample types an application may choose
SampleSizes == {1, 2, 3, 4, 8}

\* BitsPerSample::from(size) is defined for these sizes, unreachable!() otherwise
BitsPerSampleDefined(size) == size \in {1, 2, 3, 4}

\* a conversion that widens three-byte samples to 32 bits
BitsPerSample_padding_24(size) ==
    CASE size = 1 -> 8
      [] size = 2 -> 16
      [] size = 3 -> 32
      [] size = 4 -> 32

BitsPerSample(size) ==
    CASE size = 1 -> 8
      [] size = 2 -> 16
      [] size = 3 -> 24
      [] size = 4 -> 32

\* a | b on unsigned integers
RECURSIVE BitOr(_, _)
BitOr(a, b) ==
    IF a = 0 THEN b
    ELSE IF b = 0 THEN a
    ELSE (IF a % 2 = 1 \/ b % 2 = 1 THEN 1 ELSE 0) + 2 * BitOr(a \div 2, b \div 2)

\* bit is set in word (bit a power of two)
HasBit(word, bit) == (word \div bit) % 2 = 1

\* the GPIO numbers of the pins an application wires to each role
Wiring == [bck |-> 26, ws |-> 25, data_in |-> 35, data_out |-> 22, mck |-> 3]

\* Option<pin>: <<>> is None, <<p>> is Some(pin p)
NoPin == <<>>
SomePin(p) == <<p>>

\* a conversion that leaves an unsupplied role at the zero default
PinOrUnused_defaulting_to_zero(o) == IF o = NoPin THEN 0 ELSE o[1]

\* o.map_or(-1, |pin| pin.into_ref().pin())
PinOrUnused(o) == IF o = NoPin THEN -1 ELSE o[1]

SampleRates == {44100}

\* the fixed wait of I2sTx::write
WriteTimeout == 100

dma_buf_count == 8
dma_buf_len == 64

NoCfg ==
    [mode |-> 0, sample_rate |-> 0, bits_per_sample |-> 0, channel_format |-> 0,
     communication_format |-> 0, dma_buf_count |-> 0, dma_buf_len |-> 0]

NoPins ==
    [bck_io_num |-> -1, ws_io_num |-> -1, data_in_num |-> -1, data_out_num |-> -1,
     mck_io_num |-> -1]

EngineOff == [installed |-> FALSE, cfg |-> NoCfg, pins |-> NoPins]

\* the state the I2S driver's code reads and writes, as one value
I2sMachine == [engine |-> engine, calls |-> <<>>]

I2sLogEntry(fn, p, cfg, pins, size, timeout, ret) ==
    [fn |-> fn, port |-> p, cfg |-> cfg, pins |-> pins, size |-> size,
     timeout |-> timeout, ret |-> ret]

\* installing an installed engine fails
i2s_driver_install(e, p, cfg, r) ==
    LET ret == IF e.engine[p].installed THEN ESP_ERR_INVALID_STATE ELSE r
        e1 == IF ret = ESP_OK
              THEN [e EXCEPT !.engine[p] =
                        [installed |-> TRUE, cfg |-> cfg, pins |-> NoPins]]
              ELSE e
    IN  [e |-> [e1 EXCEPT !.calls = Append(@,
                    I2sLogEntry("i2s_driver_install", p, cfg, NoPins, 0, 0, ret))],
         ret |-> ret]

i2s_set_pin(e, p, pins, r) ==
    LET ret == IF e.engine[p].installed THEN r ELSE ESP_ERR_INVALID_ARG
        e1 == IF ret = ESP_OK THEN [e EXCEPT !.engine[p].pins = pins] ELSE e
    IN  [e |-> [e1 EXCEPT !.calls = Append(@,
                    I2sLogEntry("i2s_set_pin", p, NoCfg, pins, 0, 0, ret))],
         ret |-> ret]

\* uninstalling an engine that is not installed fails
i2s_driver_uninstall(e, p, r) ==
    LET ret == IF e.engine[p].installed THEN r ELSE ESP_ERR_INVALID_STATE
        e1 == IF ret = ESP_OK THEN [e EXCEPT !.engine[p] = EngineOff] ELSE e
    IN  [e |-> [e1 EXCEPT !.calls = Append(@,
                    I2sLogEntry("i2s_driver_uninstall", p, NoCfg, NoPins, 0, 0, ret))],
         ret |-> ret]

\* what the blocking write may answer: done, engine error, wait expired
WriteCodes == {ESP_OK, ESP_FAIL, ESP_ERR_TIMEOUT}

i2s_write(e, p, size, ticks_to_wait, r) ==
    LET ret == IF e.engine[p].installed THEN r ELSE ESP_ERR_INVALID_ARG
    IN  [e |-> [e EXCEPT !.calls = Append(@,
                    I2sLogEntry("i2s_write", p, NoCfg, NoPins, size, ticks_to_wait, ret))],
         ret |-> ret]

(***************************************************************************)
(* I2sConfigure::configure and the I2sDriver operations.                   *)
(***************************************************************************)
\* configure going on to bind the pins when the install failed
configure_ignoring_install_error(e, i, m, w, data_in, data_out, mck, sample_rate, r1, r2) ==
    LET rx == Mode.Rx
        tx == Mode.Tx
        tranceiver_mode ==
            CASE data_in # NoPin /\ data_out # NoPin -> BitOr(rx, tx)
              [] data_in # NoPin /\ data_out = NoPin -> rx
              [] data_in = NoPin /\ data_out # NoPin -> tx
        pin_config ==
            [bck_io_num |-> Wiring.bck, ws_io_num |-> Wiring.ws,
             data_in_num |-> PinOrUnused(data_in),
             data_out_num |-> PinOrUnused(data_out),
             mck_io_num |-> PinOrUnused(mck)]
        i2s_config ==
            [mode |-> BitOr(Mode.Master, tranceiver_mode),
             sample_rate |-> sample_rate,
             bits_per_sample |-> BitsPerSample(w),
             channel_format |-> ChannelFormat.RightLeft,
             communication_format |-> get_comm_format(i, m),
             dma_buf_count |-> dma_buf_count, dma_buf_len |-> dma_buf_len]
        c1 == i2s_driver_install(e, port(i), i2s_config, r1)
        c2 == i2s_set_pin(c1.e, port(i), pin_config, r2)
    IN  IF data_in = NoPin /\ data_out = NoPin THEN [e |-> e, res |-> Panic]
        ELSE IF ~BitsPerSampleDefined(w) THEN [e |-> e, res |-> Panic]
        ELSE [e |-> c2.e, res |-> esp(c2.ret)]

\* configure taking a lone data-out pin for the receive direction
configure_tx_as_rx(e, i, m, w, data_in, data_out, mck, sample_rate, r1, r2) ==
    LET rx == Mode.Rx
        tx == Mode.Tx
        tranceiver_mode ==
            CASE data_in # NoPin /\ data_out # NoPin -> BitOr(rx, tx)
              [] data_in # NoPin /\ data_out = NoPin -> rx
              [] data_in = NoPin /\ data_out # NoPin -> rx
        pin_config ==
            [bck_io_num |-> Wiring.bck, ws_io_num |-> Wiring.ws,
             data_in_num |-> PinOrUnused(data_in),
             data_out_num |-> PinOrUnused(data_out),
             mck_io_num |-> PinOrUnused(mck)]
        i2s_config ==
            [mode |-> BitOr(Mode.Master, tranceiver_mode),
             sample_rate |-> sample_rate,
             bits_per_sample |-> BitsPerSample(w),
             channel_format |-> ChannelFormat.RightLeft,
             communication_format |-> get_comm_format(i, m),
             dma_buf_count |-> dma_buf_count, dma_buf_len |-> dma_buf_len]
        c1 == i2s_driver_install(e, port(i), i2s_config, r1)
        c2 == i2s_set_pin(c1.e, port(i), pin_config, r2)
    IN  IF data_in = NoPin /\ data_out = NoPin THEN [e |-> e, res |-> Panic]
        ELSE IF ~BitsPerSampleDefined(w) THEN [e |-> e, res |-> Panic]
        ELSE IF ~esp(c1.ret).ok THEN [e |-> c1.e, res |-> esp(c1.ret)]
        ELSE [e |-> c2.e, res |-> esp(c2.ret)]

\* configure accepting a request with neither data pin
configure_without_direction_check(e, i, m, w, data_in, data_out, mck, sample_rate, r1, r2) ==
    LET rx == Mode.Rx
        tx == Mode.Tx
        tranceiver_mode ==
            CASE data_in # NoPin /\ data_out # NoPin -> BitOr(rx, tx)
              [] data_in # NoPin /\ data_out = NoPin -> rx
              [] data_in = NoPin /\ data_out # NoPin -> tx
              [] data_in = NoPin /\ data_out = NoPin -> 0
        pin_config ==
            [bck_io_num |-> Wiring.bck, ws_io_num |-> Wiring.ws,
             data_in_num |-> PinOrUnused(data_in),
             data_out_num |-> PinOrUnused(data_out),
             mck_io_num |-> PinOrUnused(mck)]
        i2s_config ==
            [mode |-> BitOr(Mode.Master, tranceiver_mode),
             sample_rate |-> sample_rate,
             bits_per_sample |-> BitsPerSample(w),
             channel_format |-> ChannelFormat.RightLeft,
             communication_format |-> get_comm_format(i, m),
             dma_buf_count |-> dma_buf_count, dma_buf_len |-> dma_buf_len]
        c1 == i2s_driver_install(e, port(i), i2s_config, r1)
        c2 == i2s_set_pin(c1.e, port(i), pin_config, r2)
    IN  IF ~BitsPerSampleDefined(w) THEN [e |-> e, res |-> Panic]
        ELSE IF ~esp(c1.ret).ok THEN [e |-> c1.e, res |-> esp(c1.ret)]
        ELSE [e |-> c2.e, res |-> esp(c2.ret)]

configure(e, i, m, w, data_in, data_out, mck, sample_rate, r1, r2) ==
    LET rx == Mode.Rx
        tx == Mode.Tx
        tranceiver_mode ==
            CASE data_in # NoPin /\ data_out # NoPin -> BitOr(rx, tx)
              [] data_in # NoPin /\ data_out = NoPin -> rx
              [] data_in = NoPin /\ data_out # NoPin -> tx
        pin_config ==
            [bck_io_num |-> Wiring.bck, ws_io_num |-> Wiring.ws,
             data_in_num |-> PinOrUnused(data_in),
             data_out_num |-> PinOrUnused(data_out),
             mck_io_num |-> PinOrUnused(mck)]
        i2s_config ==
            [mode |-> BitOr(Mode.Master, tranceiver_mode),
             sample_rate |-> sample_rate,
             bits_per_sample |-> BitsPerSample(w),
             channel_format |-> ChannelFormat.RightLeft,
             communication_format |-> get_comm_format(i, m),
             dma_buf_count |-> dma_buf_count, dma_buf_len |-> dma_buf_len]
        c1 == i2s_driver_install(e, port(i), i2s_config, r1)
        c2 == i2s_set_pin(c1.e, port(i), pin_config, r2)
    IN  IF data_in = NoPin /\ data_out = NoPin THEN [e |-> e, res |-> Panic]
        ELSE IF ~BitsPerSampleDefined(w) THEN [e |-> e, res |-> Panic]
        ELSE IF ~esp(c1.ret).ok THEN [e |-> c1.e, res |-> esp(c1.ret)]
        ELSE [e |-> c2.e, res |-> esp(c2.ret)]

\* write reporting an expired wait as success
write_hiding_timeout(e, i, len, r) ==
    LET c == i2s_write(e, port(i), len, WriteTimeout, r)
    IN  [e |-> c.e, res |-> IF c.ret = ESP_ERR_TIMEOUT THEN Ok ELSE esp(c.ret)]

\* I2sTx::write of a slice of len samples
write(e, i, len, r) ==
    LET c == i2s_write(e, port(i), len, WriteTimeout, r)
    IN  [e |-> c.e, res |-> esp(c.ret)]

\* I2sRx::read
read(e) == [e |-> e, res |-> Ok]

\* the live handles that hold identity i
HandlesOf(i) == {d \in i2sDrivers : d.i2s = i}

I2sOpRec(op, i, m, w, data_in, data_out, mck, len, res) ==
    [op |-> op, i2s |-> i, m |-> m, w |-> w, data_in |-> data_in # NoPin,
     data_out |-> data_out # NoPin, mck |-> mck # NoPin, len |-> len, res |-> res]

NoI2sOp == I2sOpRec("none", "none", "none", 0, NoPin, NoPin, NoPin, 0, Ok)

\* the operation becomes the last operation
I2sRecord(rec, log) ==
    /\ i2sOp' = rec
    /\ i2sCalls' = log
    /\ lastOp' = NoOp
    /\ pre' = NoSnapshot
    /\ chain' = 0
    /\ calls' = <<>>

\* new_rx, new_tx and new: into_ref, configure(..)?, Ok(I2sDriver {..})
Construct(op, i, m, w, data_in, data_out, mck) ==
    /\ ~panicked
    /\ i \in i2sAvail
    /\ Cardinality(HandlesOf(i)) < MaxLive
    /\ \E sample_rate \in SampleRates, fail \in 0 .. 2 :
        LET c == configure(I2sMachine, i, m, w, data_in, data_out, mck,
                           sample_rate, Answer(fail, 1), Answer(fail, 2))
        IN  /\ engine' = c.e.engine
            /\ I2sRecord(I2sOpRec(op, i, m, w, data_in, data_out, mck, 0, c.res),
                         c.e.calls)
            /\ panicked' = (c.res = Panic)
            /\ IF c.res.ok
               THEN /\ i2sAvail' = IntoRef(i2sAvail, i)
                    /\ i2sDrivers' = i2sDrivers \cup
                          {[i2s |-> i, m |-> m, w |-> w,
                            k |-> Cardinality(HandlesOf(i)) + 1]}
               ELSE UNCHANGED <<i2sAvail, i2sDrivers>>

MckChoices == {NoPin, SomePin(Wiring.mck)}

I2sNewRx(i) ==
    \E mck \in MckChoices :
        Construct("new_rx", i, i2sType.m, i2sType.w, SomePin(Wiring.data_in), NoPin, mck)

I2sNewTx(i) ==
    \E mck \in MckChoices :
        Construct("new_tx", i, i2sType.m, i2sType.w, NoPin, SomePin(Wiring.data_out), mck)

I2sNew(i) ==
    \E mck \in MckChoices :
        Construct("new", i, i2sType.m, i2sType.w, SomePin(Wiring.data_in),
                  SomePin(Wiring.data_out), mck)

\* a direct call of the public trait function I2sConfigure::configure
I2sConfigureCall(i) ==
    /\ ~panicked
    /\ i \in inUse
    /\ \E mck \in MckChoices,
          data_in \in {NoPin, SomePin(Wiring.data_in)},
          data_out \in {NoPin, SomePin(Wiring.data_out)},
          sample_rate \in SampleRates, fail \in 0 .. 2 :
        LET c == configure(I2sMachine, i, i2sType.m, i2sType.w, data_in, data_out,
                           mck, sample_rate, Answer(fail, 1), Answer(fail, 2))
        IN  /\ engine' = c.e.engine
            /\ I2sRecord(I2sOpRec("configure", i, i2sType.m, i2sType.w, data_in,
                                  data_out, mck, 0, c.res), c.e.calls)
            /\ panicked' = (c.res = Panic)
    /\ UNCHANGED <<i2sAvail, i2sDrivers>>

I2sWrite(d) ==
    /\ ~panicked
    /\ d \in i2sDrivers
    /\ \E len \in 0 .. MaxSamples, r \in WriteCodes :
        LET c == write(I2sMachine, d.i2s, len, r)
        IN  /\ engine' = c.e.engine
            /\ I2sRecord(I2sOpRec("write", d.i2s, d.m, d.w, NoPin, NoPin, NoPin,
                                  len, c.res), c.e.calls)
    /\ UNCHANGED <<i2sAvail, i2sDrivers, panicked>>

I2sRead(d) ==
    /\ ~panicked
    /\ d \in i2sDrivers
    /\ \E len \in 0 .. MaxSamples :
        LET c == read(I2sMachine)
        IN  /\ engine' = c.e.engine
            /\ I2sRecord(I2sOpRec("read", d.i2s, d.m, d.w, NoPin, NoPin, NoPin,
                                  len, c.res), c.e.calls)
    /\ UNCHANGED <<i2sAvail, i2sDrivers, panicked>>

\* a destructor that lets the handle go whatever the uninstall answers
I2sDrop_ignoring_error(d) ==
    /\ ~panicked
    /\ d \in i2sDrivers
    /\ \E r \in EspCodes :
        LET c == i2s_driver_uninstall(I2sMachine, port(d.i2s), r)
        IN  /\ engine' = c.e.engine
            /\ I2sRecord(I2sOpRec("drop", d.i2s, d.m, d.w, NoPin, NoPin, NoPin, 0,
                                  Ok), c.e.calls)
            /\ i2sDrivers' = i2sDrivers \ {d}
            /\ i2sAvail' = i2sAvail \cup {d.i2s}
            /\ UNCHANGED panicked

\* Drop for I2sDriver: i2s_driver_uninstall(..).unwrap()
I2sDrop(d) ==
    /\ ~panicked
    /\ d \in i2sDrivers
    /\ \E r \in EspCodes :
        LET c == i2s_driver_uninstall(I2sMachine, port(d.i2s), r)
        IN  /\ engine' = c.e.engine
            /\ I2sRecord(I2sOpRec("drop", d.i2s, d.m, d.w, NoPin, NoPin, NoPin, 0,
                                  IF esp(c.ret).ok THEN Ok ELSE Panic), c.e.calls)
            /\ IF esp(c.ret).ok
               THEN /\ i2sDrivers' = i2sDrivers \ {d}
                    /\ i2sAvail' = i2sAvail \cup {d.i2s}
                    /\ UNCHANGED panicked
               ELSE /\ panicked' = TRUE
                    /\ UNCHANGED <<i2sAvail, i2sDrivers>>

(***************************************************************************)
(* The specification.                                                      *)
(***************************************************************************)
Peripherals == TimerIds \cup I2sIds

\* the hardware engine behind an identity, timers first
EngineOf(p) == IF p \in TimerIds THEN TimerEngine(p) ELSE NumSlots + port(p)

\* Every native call and every registry access of an operation is keyed by the
\* group and index, or the port, of the identity it is called on, and engines
\* share no other state: a behaviour follows the identities behind one engine,
\* and one instantiation (mode tag, sample type) of the I2S driver.
InitOn(tg) ==
    /\ target = tg
    /\ inUse \in {S \in SUBSET (Declared(tg) \cup I2sIds) :
                    /\ S # {}
                    /\ \A p, q \in S : EngineOf(p) = EngineOf(q)}
    /\ i2sType \in [m : Modes, w : SampleSizes]
    /\ (inUse \cap I2sIds = {}) => i2sType = [m |-> "I2sMode", w |-> 2]
    /\ panicked = FALSE
    /\ timerAvail = inUse \cap TimerIds
    /\ timerDrivers = [t \in TimerIds |-> 0]
    /\ hwInit = [a \in HwAddrs |-> FALSE]
    /\ hwIntrEn = [a \in HwAddrs |-> FALSE]
    /\ hwCallback = [a \in HwAddrs |-> NULL]
    /\ hwRun = [a \in HwAddrs |-> FALSE]
    /\ hwAlarmEn = [a \in HwAddrs |-> FALSE]
    /\ hwCounter = [a \in HwAddrs |-> 0]
    /\ hwAlarm = [a \in HwAddrs |-> 0]
    /\ ISR_HANDLERS = [i \in 0 .. (Capacity(tg) - 1) |-> None]
    /\ isrActive = FALSE
    /\ invoked = <<>>
    /\ lastOp = NoOp
    /\ pre = NoSnapshot
    /\ chain = 0
    /\ calls = <<>>
    /\ i2sAvail = inUse \cap I2sIds
    /\ i2sDrivers = {}
    /\ engine = [p \in Ports |-> EngineOff]
    /\ i2sOp = NoI2sOp
    /\ i2sCalls = <<>>
    /\ reads = NoReads
    /\ alarmLog = NoAlarmLog

\* the build the operations are followed on: not esp32c3, four timers
Init == InitOn("esp32")

\* a timer operation leaves the I2S driver's state alone, and conversely
I2sQuiet == UNCHANGED <<target, inUse, i2sType, i2sVars>>

I2sIdle == I2sQuiet /\ UNCHANGED scenarioVars

TimerIdle == UNCHANGED <<target, inUse, i2sType, timerVars, scenarioVars>>

Next ==
    \/ \E t \in TimerIds : TimerNew(t) /\ I2sIdle
    \/ \E t \in TimerIds : TimerSubscribe(t) /\ I2sIdle
    \/ \E t \in TimerIds : TimerUnsubscribe(t) /\ I2sIdle
    \/ \E t \in TimerIds : TimerEnableInterrupt(t) /\ I2sIdle
    \/ \E t \in TimerIds : TimerDisableInterrupt(t) /\ I2sIdle
    \/ \E t \in TimerIds : TimerDrop(t) /\ I2sIdle
    \/ \E t \in TimerIds : TimerEnable(t) /\ I2sIdle
    \/ \E a \in HwAddrs : IsrEnter(a) /\ I2sIdle
    \/ IsrExit /\ I2sIdle
    \/ \E i \in I2sIds : I2sNewRx(i) /\ TimerIdle
    \/ \E i \in I2sIds : I2sNewTx(i) /\ TimerIdle
    \/ \E i \in I2sIds : I2sNew(i) /\ TimerIdle
    \/ \E i \in I2sIds : I2sConfigureCall(i) /\ TimerIdle
    \/ \E d \in i2sDrivers : I2sWrite(d) /\ TimerIdle
    \/ \E d \in i2sDrivers : I2sRead(d) /\ TimerIdle
    \/ \E d \in i2sDrivers : I2sDrop(d) /\ TimerIdle

Spec == Init /\ [][Next]_vars

\* The counter and alarm operations read and write only the counter and alarm
\* registers of the engine at (group, index) of their identity, which no other
\* operation but the constructor and the destructor writes, and the execution
\* context: they are followed on one timer handle, of either group, in normal
\* context and inside the handler the handle subscribed.
CounterTimers == {"TIMER00", "TIMER11"}

CounterInit ==
    /\ Init
    /\ \E t \in CounterTimers : inUse = {t}

CounterNext ==
    \/ \E t \in TimerIds : TimerNew(t) /\ I2sIdle
    \/ \E t \in TimerIds : TimerSubscribe(t) /\ I2sIdle
    \/ \E t \in TimerIds : TimerDrop(t) /\ I2sIdle
    \/ \E a \in HwAddrs : IsrEnter(a) /\ I2sIdle
    \/ IsrExit /\ I2sIdle
    \/ \E t \in TimerIds : TimerCounter(t) /\ I2sIdle
    \/ \E t \in TimerIds : TimerSetCounter(t) /\ I2sIdle
    \/ \E t \in TimerIds : TimerEnableAlarm(t) /\ I2sIdle
    \/ \E t \in TimerIds : TimerAlarm(t) /\ I2sIdle
    \/ \E t \in TimerIds : TimerSetAlarm(t) /\ I2sIdle

CounterSpec == CounterInit /\ [][CounterNext]_vars

\* The registry operations on either build: the lifecycle of the timer
\* handles of the identities the build declares, with its registry.
VariantInit ==
    /\ \E tg \in Targets : InitOn(tg)
    /\ inUse \subseteq TimerIds

VariantNext ==
    \/ \E t \in TimerIds : TimerNew(t) /\ I2sIdle
    \/ \E t \in TimerIds : TimerSubscribe(t) /\ I2sIdle
    \/ \E t \in TimerIds : TimerUnsubscribe(t) /\ I2sIdle
    \/ \E t \in TimerIds : TimerDrop(t) /\ I2sIdle
    \/ \E a \in HwAddrs : IsrEnter(a) /\ I2sIdle
    \/ IsrExit /\ I2sIdle

VariantSpec == VariantInit /\ [][VariantNext]_vars

\* The counter scenario: one handle on TIMER00 is constructed, started and
\* paused, read, set and dropped while the counter of the running engine
\* counts.
RunInit ==
    /\ Init
    /\ inUse = {"TIMER00"}

\* a step of the counter scenario by operation A of the handle
RunStep(A) ==
    /\ A
    /\ I2sQuiet
    /\ reads' = ReadsAfter(lastOp')
    /\ UNCHANGED alarmLog

RunNext ==
    \/ \E t \in TimerIds : RunStep(TimerNew(t))
    \/ \E t \in TimerIds : RunStep(TimerEnable(t))
    \/ \E t \in TimerIds : RunStep(TimerCounter(t))
    \/ \E t \in TimerIds : RunStep(TimerSetCounter(t))
    \/ \E t \in TimerIds : RunStep(TimerDrop(t))
    \/ \E a \in HwAddrs : Tick(a) /\ I2sQuiet

RunSpec == RunInit /\ [][RunNext]_vars

\* The alarm scenario: one handle on TIMER00 subscribes a handler, sets and
\* arms the alarm, enables the interrupt and starts the counter, in any order
\* and any number of times, in normal context and inside the handler, while
\* the counter of the running engine counts and the alarm is dispatched.
AlarmInit ==
    /\ Init
    /\ inUse = {"TIMER00"}

\* a step of the alarm scenario by operation A of the handle of identity t
AlarmStep(t, A) ==
    /\ A
    /\ lastOp'.op = "subscribe" => lastOp'.arg <= MaxAlarmHandlers
    /\ I2sQuiet
    /\ alarmLog' = AlarmLogAfter(lastOp', hwCounter'[Hw(t)])
    /\ UNCHANGED reads

AlarmTick == \E a \in HwAddrs : Tick(a) /\ I2sQuiet

AlarmReturn == IsrExit /\ I2sIdle

AlarmNext ==
    \/ \E t \in TimerIds : AlarmStep(t, TimerNew(t))
    \/ \E t \in TimerIds : AlarmStep(t, TimerSubscribe(t))
    \/ \E t \in TimerIds : AlarmStep(t, TimerSetAlarm(t))
    \/ \E t \in TimerIds : AlarmStep(t, TimerEnableAlarm(t))
    \/ \E t \in TimerIds : AlarmStep(t, TimerEnableInterrupt(t))
    \/ \E t \in TimerIds : AlarmStep(t, TimerEnable(t))
    \/ AlarmTick
    \/ AlarmReturn

\* the counter of a running engine keeps counting, and a handler returns
AlarmSpec ==
    /\ AlarmInit
    /\ [][AlarmNext]_vars
    /\ WF_vars(AlarmTick)
    /\ WF_vars(AlarmReturn)

(***************************************************************************)
(* Properties.                                                             *)
(***************************************************************************)
\* a successful native call on engine a, as logged
Called(fn, a, arg) == LogEntry(fn, a, -1, arg, ESP_OK)

\* a write of registry slot i, as logged
Wrote(fn, i, addr) == LogEntry(fn, <<>>, i, addr, ESP_OK)

\* C1: after two successful subscribes in a row on a timer (handlers h1, then
\* h2) the slot holds h2, the one native registration has the address of h2's
\* box as context, and the second subscribe disabled the interrupt, removed
\* the registration of h1 and freed h1's box before it stored h2; an
\* unsubscribe that follows and succeeds leaves the slot empty and no native
\* registration.
C1_SubscribeReplaces ==
    LET t == lastOp.t
        slot == ISR_HANDLERS[SlotIndex(t)]
    IN  /\ (chain = 2 /\ lastOp.op = "subscribe" /\ lastOp.res.ok) =>
              /\ slot.h = lastOp.arg
              /\ slot.addr # NULL
              /\ hwCallback[Hw(t)] = slot.addr
              /\ pre.slot.h = pre.arg
              /\ pre.slot.addr # NULL
              /\ pre.cb = pre.slot.addr
              /\ calls = << Called("timer_disable_intr", Hw(t), 0),
                            Called("timer_isr_callback_remove", Hw(t), 0),
                            Wrote("slot_clear", SlotIndex(t), pre.slot.addr),
                            Wrote("slot_store", SlotIndex(t), slot.addr),
                            Called("timer_isr_callback_add", Hw(t), slot.addr),
                            Called("timer_enable_intr", Hw(t), 0) >>
        /\ (chain = 2 /\ lastOp.op = "unsubscribe" /\ lastOp.res.ok) =>
              /\ slot = None
              /\ hwCallback[Hw(t)] = NULL

\* two subscribes and an unsubscribe in a row on one timer, all successful
C1_Witness ==
    /\ chain = 2
    /\ lastOp.op = "unsubscribe"
    /\ lastOp.res.ok
    /\ pre.slot # None
    /\ pre.cb = pre.slot.addr

C3_OneHandlePerIdentity ==
    /\ \A t \in TimerIds :
          /\ timerDrivers[t] <= 1
          /\ t \in timerAvail => timerDrivers[t] = 0
    /\ \A i \in I2sIds :
          /\ Cardinality(HandlesOf(i)) <= 1
          /\ i \in i2sAvail => HandlesOf(i) = {}

\* a timer handle was constructed and holds its identity
C3_Witness ==
    /\ lastOp.op = "new"
    /\ lastOp.res.ok
    /\ timerDrivers[lastOp.t] = 1
    /\ lastOp.t \notin timerAvail

\* C4: two live handles of distinct identities never drive the same hardware
\* engine nor use the same registry slot (distinct identities have distinct
\* group and index, distinct ports).
C4_DistinctEngines ==
    /\ \A t1, t2 \in TimerIds :
          (t1 # t2 /\ timerDrivers[t1] > 0 /\ timerDrivers[t2] > 0) =>
              /\ Hw(t1) # Hw(t2)
              /\ SlotIndex(t1) # SlotIndex(t2)
    /\ \A d1, d2 \in i2sDrivers : d1.i2s # d2.i2s => port(d1.i2s) # port(d2.i2s)

I2sConstructors == {"new_rx", "new_tx", "new"}

\* the last operation went through configure and its k-th native call was fn
ConfigureCalled(k, fn) ==
    /\ i2sOp.op \in I2sConstructors \cup {"configure"}
    /\ Len(i2sCalls) >= k
    /\ i2sCalls[k].fn = fn

\* C5: after a constructor whose engine install succeeded and whose pin
\* binding failed, the engine of that identity is not installed.
C5_UninstallOnPinFailure ==
    (/\ i2sOp.op \in I2sConstructors
     /\ ConfigureCalled(1, "i2s_driver_install")
     /\ i2sCalls[1].ret = ESP_OK
     /\ ConfigureCalled(2, "i2s_set_pin")
     /\ i2sCalls[2].ret # ESP_OK) =>
        ~engine[port(i2sOp.i2s)].installed

\* C6: when engine install fails, pin binding is not attempted, the error of
\* the install is the returned error value, and a constructor creates no
\* handle and keeps no identity.
C6_InstallFailureAborts ==
    (ConfigureCalled(1, "i2s_driver_install") /\ i2sCalls[1].ret # ESP_OK) =>
        /\ Len(i2sCalls) = 1
        /\ i2sOp.res = Err(i2sCalls[1].ret)
        /\ ~panicked
        /\ i2sOp.op \in I2sConstructors =>
              /\ HandlesOf(i2sOp.i2s) = {}
              /\ i2sOp.i2s \in i2sAvail

\* new_rx on an engine that is already installed
C6_Witness ==
    /\ i2sOp.op = "new_rx"
    /\ ConfigureCalled(1, "i2s_driver_install")
    /\ i2sCalls[1].ret = ESP_ERR_INVALID_STATE

\* C7: read is invoked only on a handle whose engine was configured with the
\* receive direction.
C7_NoReadOnTransmitOnly ==
    i2sOp.op = "read" => HasBit(engine[port(i2sOp.i2s)].cfg.mode, Mode.Rx)

\* C8: the mode field of the installed parameter block is the Master bit and
\* the Rx bit for data-in alone, the Tx bit for data-out alone, both for both;
\* new_rx installs Rx only, new_tx Tx only, new Rx and Tx.
C8_DirectionInference ==
    ConfigureCalled(1, "i2s_driver_install") =>
        LET mode == i2sCalls[1].cfg.mode
        IN  /\ (i2sOp.data_in /\ ~i2sOp.data_out) => mode = Mode.Master + Mode.Rx
            /\ (~i2sOp.data_in /\ i2sOp.data_out) => mode = Mode.Master + Mode.Tx
            /\ (i2sOp.data_in /\ i2sOp.data_out) =>
                  mode = Mode.Master + Mode.Rx + Mode.Tx
            /\ i2sOp.op = "new_rx" => mode = Mode.Master + Mode.Rx
            /\ i2sOp.op = "new_tx" => mode = Mode.Master + Mode.Tx
            /\ i2sOp.op = "new" => mode = Mode.Master + Mode.Rx + Mode.Tx
            /\ i2sCalls[1].ret = ESP_OK =>
                  engine[port(i2sOp.i2s)].cfg.mode = mode

\* a transmit-only handle was constructed
C8_Witness ==
    /\ i2sOp.op = "new_tx"
    /\ i2sOp.res.ok
    /\ engine[port(i2sOp.i2s)].installed
    /\ engine[port(i2sOp.i2s)].pins.data_in_num = -1

\* C9: engine install is never called with a mode that has neither direction
\* bit; every constructor supplies a data pin; a configure request without
\* data-in and data-out panics before any native call.
C9_NoInstallWithoutDirection ==
    /\ \A k \in 1 .. Len(i2sCalls) :
          i2sCalls[k].fn = "i2s_driver_install" =>
              \/ HasBit(i2sCalls[k].cfg.mode, Mode.Rx)
              \/ HasBit(i2sCalls[k].cfg.mode, Mode.Tx)
    /\ \A p \in Ports :
          engine[p].installed =>
              \/ HasBit(engine[p].cfg.mode, Mode.Rx)
              \/ HasBit(engine[p].cfg.mode, Mode.Tx)
    /\ i2sOp.op \in I2sConstructors => (i2sOp.data_in \/ i2sOp.data_out)
    /\ (i2sOp.op = "configure" /\ ~i2sOp.data_in /\ ~i2sOp.data_out) =>
          /\ i2sCalls = <<>>
          /\ i2sOp.res = Panic
          /\ panicked

\* configure was called with neither data pin
C9_Witness ==
    /\ i2sOp.op = "configure"
    /\ ~i2sOp.data_in
    /\ ~i2sOp.data_out

\* C10: write issues exactly one blocking write, with timeout 100, and
\* returns the code of that call: success for ESP_OK, otherwise the error
\* unchanged (an expired wait and an engine error included); it never
\* panics and the handle stays live.
C10_WriteSurfacesError ==
    i2sOp.op = "write" =>
        /\ Len(i2sCalls) = 1
        /\ i2sCalls[1].fn = "i2s_write"
        /\ i2sCalls[1].port = port(i2sOp.i2s)
        /\ i2sCalls[1].timeout = 100
        /\ i2sOp.res.ok <=> i2sCalls[1].ret = ESP_OK
        /\ i2sOp.res.err = i2sCalls[1].ret
        /\ i2sCalls[1].ret \in {ESP_ERR_TIMEOUT, ESP_FAIL} => ~i2sOp.res.ok
        /\ ~panicked
        /\ HandlesOf(i2sOp.i2s) # {}

\* a write whose wait expired
C10_Witness ==
    /\ i2sOp.op = "write"
    /\ i2sOp.res = Err(ESP_ERR_TIMEOUT)
    /\ HandlesOf(i2sOp.i2s) # {}

\* C11: destroying an I2sDriver issues exactly one native call, the uninstall
\* of its port; when the uninstall succeeds the engine is uninstalled and the
\* handle is gone, when it fails the process panics.
C11_DropUninstalls ==
    i2sOp.op = "drop" =>
        /\ Len(i2sCalls) = 1
        /\ i2sCalls[1].fn = "i2s_driver_uninstall"
        /\ i2sCalls[1].port = port(i2sOp.i2s)
        /\ i2sCalls[1].ret = ESP_OK =>
              /\ ~engine[port(i2sOp.i2s)].installed
              /\ i2sOp.res = Ok
              /\ HandlesOf(i2sOp.i2s) = {}
              /\ ~panicked
        /\ i2sCalls[1].ret # ESP_OK =>
              /\ i2sOp.res = Panic
              /\ panicked

\* the uninstall of a destructor failed: the engine stays installed and the
\* process has panicked
C11_Witness ==
    /\ i2sOp.op = "drop"
    /\ i2sCalls[1].ret = ESP_FAIL
    /\ engine[port(i2sOp.i2s)].installed
    /\ panicked

\* the calls unsubscribe issues on identity t when the slot held a handler at
\* address addr, all successful
Unsubscribed(t, addr) ==
    << Called("timer_disable_intr", Hw(t), 0),
       Called("timer_isr_callback_remove", Hw(t), 0),
       Wrote("slot_clear", SlotIndex(t), addr) >>

\* C12: a destructor of a TimerDriver that returns has first unsubscribed
\* (interrupt disabled, registration removed, slot emptied, when a handler
\* was registered) and then deinitialised the timer: the slot is empty, no
\* native callback is registered and the engine is deinitialised; when a step
\* fails the process panics.
C12_DropTearsDown ==
    lastOp.op = "drop" =>
        LET t == lastOp.t
        IN  /\ lastOp.res = Ok =>
                  /\ ISR_HANDLERS[SlotIndex(t)] = None
                  /\ hwCallback[Hw(t)] = NULL
                  /\ ~hwInit[Hw(t)]
                  /\ calls = (IF pre.slot = None THEN <<>>
                              ELSE Unsubscribed(t, pre.slot.addr))
                             \o << Called("timer_deinit", Hw(t), 0) >>
            /\ lastOp.res # Ok =>
                  /\ lastOp.res = Panic
                  /\ panicked
            /\ (\E k \in 1 .. Len(calls) : calls[k].ret # ESP_OK) => panicked

\* a handle with a registered callback was destroyed
C12_Witness ==
    /\ lastOp.op = "drop"
    /\ lastOp.res = Ok
    /\ pre.slot # None
    /\ pre.cb = pre.slot.addr
    /\ pre.intr

\* C13: every clearing of a registry slot directly follows a successful
\* disable-interrupt and a successful remove-registration on the slot's
\* timer, in that order; a slot is written only when it is empty; and every
\* context pointer a dispatch uses or can use is the address of a box the
\* registry owns.
C13_SilencedBeforeFreed ==
    /\ \A k \in 1 .. Len(calls) :
          calls[k].fn = "slot_clear" =>
              /\ k >= 3
              /\ calls[k].slot = SlotIndex(lastOp.t)
              /\ calls[k - 2] = Called("timer_disable_intr", Hw(lastOp.t), 0)
              /\ calls[k - 1] = Called("timer_isr_callback_remove", Hw(lastOp.t), 0)
    /\ \A k \in 1 .. Len(calls) :
          calls[k].fn = "slot_store" =>
              \/ k = 1 /\ pre.slot = None
              \/ k > 1 /\ calls[k - 1].fn = "slot_clear"
                       /\ calls[k - 1].slot = calls[k].slot
    /\ \A a \in HwAddrs :
          (hwIntrEn[a] /\ hwCallback[a] # NULL) =>
              BoxAt(Machine, hwCallback[a]) # {}
    /\ \A k \in 1 .. Len(invoked) :
          BoxAt(Machine, invoked[k].ctx) = {invoked[k].h}

\* an unsubscribe that found a handler, with the interrupt enabled, succeeded
C13_Witness ==
    /\ lastOp.op = "unsubscribe"
    /\ lastOp.res = Ok
    /\ pre.slot # None
    /\ pre.intr
    /\ calls = Unsubscribed(lastOp.t, pre.slot.addr)

\* C14: a subscribe that returns success has, after unsubscribing what was
\* registered, stored the handler, registered the trampoline with the address
\* of the stored box as context and enabled the interrupt, in that order; the
\* slot holds the handler, the registration's context is the address of the
\* slot's content and the interrupt is enabled. No subscribe enables the
\* interrupt unless the call before it registered the trampoline.
C14_SubscribeOrder ==
    lastOp.op = "subscribe" =>
        LET t == lastOp.t
            slot == ISR_HANDLERS[SlotIndex(t)]
        IN  /\ lastOp.res.ok =>
                  /\ slot.h = lastOp.arg
                  /\ slot.addr # NULL
                  /\ hwCallback[Hw(t)] = slot.addr
                  /\ hwIntrEn[Hw(t)]
                  /\ calls = (IF pre.slot = None THEN <<>>
                              ELSE Unsubscribed(t, pre.slot.addr))
                             \o << Wrote("slot_store", SlotIndex(t), slot.addr),
                                   Called("timer_isr_callback_add", Hw(t), slot.addr),
                                   Called("timer_enable_intr", Hw(t), 0) >>
            /\ \A k \in 1 .. Len(calls) :
                  calls[k].fn = "timer_enable_intr" =>
                      /\ k > 1
                      /\ calls[k - 1] =
                            Called("timer_isr_callback_add", Hw(t), slot.addr)

\* a first subscribe on a timer succeeded
C14_Witness ==
    /\ lastOp.op = "subscribe"
    /\ lastOp.res.ok
    /\ pre.slot = None
    /\ ~pre.intr
    /\ hwIntrEn[Hw(lastOp.t)]

\* the operations that call check() and touch the run state, the interrupt
\* enable or the registry
NormalOnly ==
    {"enable", "enable_interrupt", "disable_interrupt", "subscribe", "unsubscribe"}

\* C15: enable, enable_interrupt, disable_interrupt, subscribe and unsubscribe
\* called in interrupt context panic without a native call or a registry
\* write, and leave the run state, the interrupt enable, the registration and
\* the slot of the timer as they were.
C15_NormalOnlyPanicInIsr ==
    (lastOp.op \in NormalOnly /\ pre.isr) =>
        /\ lastOp.res = Panic
        /\ panicked
        /\ calls = <<>>
        /\ hwRun[Hw(lastOp.t)] = pre.run
        /\ hwIntrEn[Hw(lastOp.t)] = pre.intr
        /\ hwCallback[Hw(lastOp.t)] = pre.cb
        /\ ISR_HANDLERS[SlotIndex(lastOp.t)] = pre.slot

\* a handler asked to pause a running timer
C15_Witness ==
    /\ lastOp.op = "enable"
    /\ lastOp.arg = 0
    /\ pre.isr
    /\ pre.run
    /\ pre.slot # None

\* C16: counter issues exactly one read of its timer: the interrupt-safe read
\* in interrupt context, the blocking read in normal context; it returns the
\* engine's counter value, never panics, and in normal context returns the
\* error of a failing read.
C16_CounterByContext ==
    lastOp.op = "counter" =>
        LET a == Hw(lastOp.t)
        IN  /\ lastOp.res # Panic
            /\ ~panicked
            /\ Len(calls) = 1
            /\ calls[1].hw = a
            /\ pre.isr =>
                  /\ calls[1].fn = "timer_group_get_counter_value_in_isr"
                  /\ lastOp.res = Ok
                  /\ lastOp.arg = hwCounter[a]
            /\ ~pre.isr =>
                  /\ calls[1].fn = "timer_get_counter_value"
                  /\ lastOp.res = esp(calls[1].ret)
                  /\ lastOp.res.ok => lastOp.arg = hwCounter[a]

\* a handler read a counter that had been set to a non-zero value
C16_Witness ==
    /\ lastOp.op = "counter"
    /\ pre.isr
    /\ lastOp.res = Ok
    /\ lastOp.arg > 0

\* C17: set_alarm(v) issues exactly one write of v to its timer: the
\* interrupt-safe write in interrupt context, which completes, the normal
\* write in normal context, whose error is returned; it never panics, and
\* when it returns success the engine's alarm value is v.
C17_SetAlarmByContext ==
    lastOp.op = "set_alarm" =>
        LET a == Hw(lastOp.t)
        IN  /\ lastOp.res # Panic
            /\ ~panicked
            /\ Len(calls) = 1
            /\ calls[1].hw = a
            /\ calls[1].arg = lastOp.arg
            /\ pre.isr =>
                  /\ calls[1].fn = "timer_group_set_alarm_value_in_isr"
                  /\ lastOp.res = Ok
            /\ ~pre.isr =>
                  /\ calls[1].fn = "timer_set_alarm_value"
                  /\ lastOp.res = esp(calls[1].ret)
            /\ lastOp.res.ok => hwAlarm[a] = lastOp.arg

\* a handler moved the alarm to a non-zero value
C17_Witness ==
    /\ lastOp.op = "set_alarm"
    /\ pre.isr
    /\ lastOp.arg > 0
    /\ hwAlarm[Hw(lastOp.t)] = lastOp.arg

\* C18: set_counter(v) completes in both contexts: in interrupt context it
\* writes v without panicking, in normal context it writes v through the
\* normal primitive; when the write succeeds the engine's counter is v.
C18_SetCounterByContext ==
    lastOp.op = "set_counter" =>
        LET a == Hw(lastOp.t)
        IN  /\ lastOp.res # Panic
            /\ ~panicked
            /\ pre.isr =>
                  /\ lastOp.res = Ok
                  /\ hwCounter[a] = lastOp.arg
            /\ ~pre.isr =>
                  /\ calls = << LogEntry("timer_set_counter_value", a, -1,
                                         lastOp.arg, calls[1].ret) >>
                  /\ lastOp.res = esp(calls[1].ret)
                  /\ lastOp.res.ok => hwCounter[a] = lastOp.arg

\* C19: enable_alarm(true) in interrupt context enables the alarm through the
\* interrupt-safe primitive and succeeds; in normal context enable_alarm(e)
\* sets the alarm enable to e through the normal primitive and, unless that
\* call fails, succeeds; enable_alarm(false) in interrupt context panics
\* without a native call and leaves the alarm enable as it was.
C19_EnableAlarmAsymmetric ==
    lastOp.op = "enable_alarm" =>
        LET a == Hw(lastOp.t)
            en == lastOp.arg = 1
        IN  /\ (pre.isr /\ en) =>
                  /\ calls = << Called("timer_group_enable_alarm_in_isr", a, 0) >>
                  /\ lastOp.res = Ok
                  /\ hwAlarmEn[a]
                  /\ ~panicked
            /\ (pre.isr /\ ~en) =>
                  /\ calls = <<>>
                  /\ lastOp.res = Panic
                  /\ panicked
                  /\ hwAlarmEn[a] = pre.alarm_en
            /\ ~pre.isr =>
                  /\ calls = << LogEntry("timer_set_alarm", a, -1,
                                         IF en THEN timer_alarm_t_TIMER_ALARM_EN
                                         ELSE timer_alarm_t_TIMER_ALARM_DIS,
                                         calls[1].ret) >>
                  /\ lastOp.res = esp(calls[1].ret)
                  /\ lastOp.res.ok => hwAlarmEn[a] = en
                  /\ ~panicked

\* a handler asked to disable an enabled alarm
C19_Witness ==
    /\ lastOp.op = "enable_alarm"
    /\ lastOp.arg = 0
    /\ pre.isr
    /\ pre.alarm_en
    /\ hwAlarmEn[Hw(lastOp.t)]

\* the registry slot that belongs to engine a
SlotOfEngine(a) == a[1] * timer_group_t_TIMER_GROUP_MAX + a[2]

\* C20: a step that enters the interrupt scope is a dispatch for an engine
\* whose interrupt is enabled and that has a registration: it calls, once,
\* the handler stored in the engine's slot, through the registered context
\* pointer, which is the address of that slot's box, and it leaves the
\* registry, the registrations and the interrupt enables unchanged; no
\* handler call is recorded outside the interrupt scope.
C20_TrampolineReadsOnly ==
    [][ /\ (~isrActive /\ isrActive') =>
              /\ ISR_HANDLERS' = ISR_HANDLERS
              /\ hwCallback' = hwCallback
              /\ hwIntrEn' = hwIntrEn
              /\ ~panicked'
              /\ \E a \in HwAddrs :
                    /\ hwIntrEn[a]
                    /\ hwCallback[a] # NULL
                    /\ ISR_HANDLERS[SlotOfEngine(a)].addr = hwCallback[a]
                    /\ invoked' = << [ctx |-> hwCallback[a],
                                      h |-> ISR_HANDLERS[SlotOfEngine(a)].h] >>
        /\ ~isrActive' => invoked' = <<>>
      ]_vars

\* a dispatch is in progress: the handler of a registered box was called
C20_Witness ==
    /\ isrActive
    /\ Len(invoked) = 1
    /\ \E a \in HwAddrs :
          /\ hwCallback[a] = invoked[1].ctx
          /\ ISR_HANDLERS[SlotOfEngine(a)] = Some(invoked[1].ctx, invoked[1].h)

\* C22: the bits-per-sample field of every installed parameter block is derived
\* from the byte size of the sample type alone: 8 for one byte, 16 for two, 24
\* for three, 32 for four; no block is installed for any other size, and the
\* width an installed engine holds agrees with the size of the sample type.
C22_BitsFromElementSize ==
    ConfigureCalled(1, "i2s_driver_install") =>
        LET bits == i2sCalls[1].cfg.bits_per_sample
        IN  /\ i2sOp.w \in {1, 2, 3, 4}
            /\ i2sOp.w = 1 => bits = 8
            /\ i2sOp.w = 2 => bits = 16
            /\ i2sOp.w = 3 => bits = 24
            /\ i2sOp.w = 4 => bits = 32
            /\ i2sCalls[1].ret = ESP_OK =>
                  engine[port(i2sOp.i2s)].cfg.bits_per_sample = 8 * i2sOp.w

\* an engine was installed for a three-byte sample type
C22_Witness ==
    /\ ConfigureCalled(1, "i2s_driver_install")
    /\ i2sCalls[1].ret = ESP_OK
    /\ i2sOp.w = 3
    /\ engine[port(i2sOp.i2s)].cfg.bits_per_sample = 24

\* C23: the communication format of every installed parameter block is fixed
\* by the (identity, mode) pair: on I2S0 and on I2S1 alike 0x01 for the I2S
\* mode, 0x02 for the left-justified mode and 0x04 for the TDM mode, whatever
\* the pins, the direction and the operations before; a block is installed
\* only for a declared pair.
C23_FormatByIdentityAndMode ==
    ConfigureCalled(1, "i2s_driver_install") =>
        LET format == i2sCalls[1].cfg.communication_format
        IN  /\ i2sOp.i2s \in {"I2S0", "I2S1"}
            /\ i2sOp.m \in {"I2sMode", "I2sLeftMode", "TdmMode"}
            /\ i2sOp.m = "I2sMode" => format = 1
            /\ i2sOp.m = "I2sLeftMode" => format = 2
            /\ i2sOp.m = "TdmMode" => format = 4
            /\ i2sCalls[1].ret = ESP_OK =>
                  engine[port(i2sOp.i2s)].cfg.communication_format = format

\* the second identity was installed in the TDM mode
C23_Witness ==
    /\ ConfigureCalled(1, "i2s_driver_install")
    /\ i2sCalls[1].ret = ESP_OK
    /\ i2sOp.i2s = "I2S1"
    /\ i2sOp.m = "TdmMode"
    /\ engine[port(i2sOp.i2s)].cfg.communication_format = 4

\* C24: in the pin block handed to pin binding, each optional role (master
\* clock, data-in, data-out) that was not supplied is -1 and each that was
\* supplied carries the number of the supplied pin.
C24_UnsuppliedPinsAreMinusOne ==
    \A k \in 1 .. Len(i2sCalls) :
        i2sCalls[k].fn = "i2s_set_pin" =>
            LET pins == i2sCalls[k].pins
            IN  /\ pins.mck_io_num = (IF i2sOp.mck THEN Wiring.mck ELSE -1)
                /\ pins.data_in_num = (IF i2sOp.data_in THEN Wiring.data_in ELSE -1)
                /\ pins.data_out_num =
                      (IF i2sOp.data_out THEN Wiring.data_out ELSE -1)

\* a receive-only handle without master clock had its pins bound
C24_Witness ==
    /\ i2sOp.op = "new_rx"
    /\ ~i2sOp.mck
    /\ ConfigureCalled(2, "i2s_set_pin")
    /\ i2sCalls[2].pins.mck_io_num = -1
    /\ i2sCalls[2].pins.data_out_num = -1
    /\ i2sCalls[2].pins.data_in_num = Wiring.data_in

\* C29: the byte count write hands to the native write is the number of
\* samples of the slice times the byte size of one sample.
C29_WriteByteCount ==
    (i2sOp.op = "write" /\ Len(i2sCalls) >= 1 /\ i2sCalls[1].fn = "i2s_write") =>
        i2sCalls[1].size = i2sOp.len * i2sOp.w

\* C27: in every reachable state, the states after a failed subscribe or
\* unsubscribe included, an engine that has a native registration has a
\* non-empty registry slot, and the registered context is the address of the
\* slot's content.
C27_RegistrationBacksSlot ==
    \A a \in HwAddrs :
        hwCallback[a] # NULL =>
            /\ ISR_HANDLERS[SlotOfEngine(a)] # None
            /\ ISR_HANDLERS[SlotOfEngine(a)].addr = hwCallback[a]

\* an unsubscribe failed at removing the registration, which stays
C27_Witness ==
    /\ lastOp.op = "unsubscribe"
    /\ ~lastOp.res.ok
    /\ Len(calls) = 2
    /\ calls[2].fn = "timer_isr_callback_remove"
    /\ calls[2].ret # ESP_OK
    /\ hwCallback[Hw(lastOp.t)] # NULL
    /\ ISR_HANDLERS[SlotIndex(lastOp.t)].addr = hwCallback[Hw(lastOp.t)]

\* C28: after a subscribe that returned the error of a failed registration of
\* the trampoline, the slot of the timer is empty, the interrupt is not
\* enabled, and the slot is non-empty only if a registration exists.
C28_FailedAddRollsBack ==
    (/\ lastOp.op = "subscribe"
     /\ Len(calls) >= 1
     /\ calls[Len(calls)].fn = "timer_isr_callback_add"
     /\ calls[Len(calls)].ret # ESP_OK) =>
        /\ lastOp.res = Err(calls[Len(calls)].ret)
        /\ ISR_HANDLERS[SlotIndex(lastOp.t)] = None
        /\ ~hwIntrEn[Hw(lastOp.t)]
        /\ ISR_HANDLERS[SlotIndex(lastOp.t)] # None =>
              hwCallback[Hw(lastOp.t)] # NULL

\* C21: the registry is a table of as many slots as the build has timers (four,
\* two on esp32c3), the slot index group * 2 + index of every identity the
\* build declares lies inside the table, and so no subscribe, unsubscribe or
\* drop in normal context faults at a registry access.
C21_RegistryFitsTimers ==
    /\ DOMAIN ISR_HANDLERS = 0 .. (Cardinality(Declared(target)) - 1)
    /\ Cardinality(DOMAIN ISR_HANDLERS) = (IF target = "esp32c3" THEN 2 ELSE 4)
    /\ \A t \in Declared(target) :
          /\ SlotIndex(t) = group(t) * 2 + index(t)
          /\ SlotIndex(t) \in DOMAIN ISR_HANDLERS
    /\ (lastOp.op \in {"subscribe", "unsubscribe"} /\ ~pre.isr) =>
          lastOp.res # Panic

\* the handle of TIMER00 subscribed a handler, set the alarm above the
\* counter, armed it, enabled the interrupt and started the counter, and the
\* handler was not called since
Expecting ==
    /\ ~panicked
    /\ alarmLog.sub # 0
    /\ alarmLog.alarm >= 0
    /\ alarmLog.armed
    /\ alarmLog.intr
    /\ alarmLog.run
    /\ alarmLog.below
    /\ alarmLog.shots = <<>>

\* C25: with a handler subscribed, the alarm set to a value above the
\* counter and armed, the interrupt enabled and the counter running, the
\* subscribed handler is called, through the registered context, when the
\* counter reaches the alarm value: it is called eventually unless the
\* application changes the setup first, at that count, and once until the
\* alarm is armed again.
C25_AlarmFiresOnce ==
    /\ [](Len(alarmLog.shots) <= 1)
    /\ [](\A k \in 1 .. Len(alarmLog.shots) :
            /\ alarmLog.sub # 0 => alarmLog.shots[k].h = alarmLog.sub
            /\ alarmLog.alarm >= 0 =>
                  alarmLog.shots[k].count = alarmLog.alarm)
    /\ (Expecting ~> ~Expecting)

\* the alarm set to 1 was served at count 1 while the counter runs on
C25_Witness ==
    /\ alarmLog.alarm = 1
    /\ alarmLog.run
    /\ Len(alarmLog.shots) = 1
    /\ alarmLog.shots[1].count = 1
    /\ hwCounter[Hw("TIMER00")] > 1
    /\ ~isrActive

\* C26: a constructed timer is paused and counts up: the values counter()
\* returns never decrease from one read to the next unless set_counter was
\* called in between, and they are equal when the timer was paused (by
\* construction or by enable(false)) and not started between the two reads.
C26_CounterMonotonic ==
    /\ reads.prev >= 0 => reads.last >= reads.prev
    /\ (reads.prev >= 0 /\ reads.held) => reads.last = reads.prev
    /\ (lastOp.op = "new" /\ lastOp.res.ok) => ~hwRun[Hw(lastOp.t)]

\* two equal reads after the counter ran and was paused
C26_Witness ==
    /\ lastOp.op = "counter"
    /\ reads.held
    /\ reads.paused
    /\ reads.prev >= 1
    /\ reads.last = reads.prev

====
